---- MODULE Spec2Model ----
(***************************************************************************)
(* A model of scripts/twelvedata.py: the rate-limited request client       *)
(* (td_get), the time-series and indicator fetchers, the left join         *)
(* (merge_on_datetime), the symbol universe (load_symbols_from_csv,        *)
(* --symbols, chunked) and the batch orchestrator (main).                  *)
(*                                                                         *)
(* The only suspension points of a run are the HTTP calls and the sleeps   *)
(* inside td_get, so a run is modelled by one action per stretch of code   *)
(* between two of them.  The provider and the stop file are the            *)
(* environment: every response is drawn from a bounded set of payloads,    *)
(* and the stop file may appear or disappear between any two steps.        *)
(***************************************************************************)
EXTENDS Integers, Sequences, FiniteSets, TLC

(***************************************************************************)
(* Bounds of the model.                                                    *)
(***************************************************************************)
\* longest symbol universe of a run
MaxSymbols == 2
\* longest --symbols argument (in pieces) and longest CSV column (in cells)
\* the universe is built from
MaxCells == 3
\* largest retry budget of td_get (its parameter max_retries, 5 by default in
\* the source) the request client is explored with
MaxRetries == 2

(***************************************************************************)
(* Program constants.                                                      *)
(***************************************************************************)
\* td_get(..., backoff_base=5, ...)
backoff_base == 5
\* max(60, ...) of the minute-level wait
MinuteWait == 60
\* HTTP status of a throttling payload, data.get("code") == 429
RateLimitCode == 429
\* the daily-limit return switched off
stop_on_daily_limit_off == FALSE
\* td_get(..., stop_on_daily_limit=True): no caller passes another value
stop_on_daily_limit == TRUE
\* --sleep default 8.0 and td_get's own default 0.8, in tenths of a second
ArgsSleep == 80
DefaultSleep == 8

Tickers == {"AAA", "BBB"}
\* rank of a value of the symbol column in the string order sort_values uses;
\* "AAA,BBB" is the joined symbol_param of a two-symbol batch
SymRank(s) ==
    CASE s = "AAA" -> 1
      [] s = "AAA,AAA" -> 2
      [] s = "AAA,AAA,AAA" -> 3
      [] s = "AAA,AAA,BBB" -> 4
      [] s = "AAA,BBB" -> 5
      [] s = "AAA,BBB,AAA" -> 6
      [] s = "AAA,BBB,BBB" -> 7
      [] s = "BBB" -> 8
      [] s = "BBB,AAA" -> 9
      [] s = "BBB,AAA,AAA" -> 10
      [] s = "BBB,AAA,BBB" -> 11
      [] s = "BBB,BBB" -> 12
      [] s = "BBB,BBB,AAA" -> 13
      [] s = "BBB,BBB,BBB" -> 14
      [] OTHER -> 15

Range(f) == {f[i] : i \in DOMAIN f}
Min(a, b) == IF a < b THEN a ELSE b
Max(a, b) == IF a > b THEN a ELSE b

(***************************************************************************)
(* Provider payloads.                                                      *)
(*                                                                         *)
(* A message is the set of the words of its lower-cased text; `w in msg`   *)
(* of the source is a substring test, so "credit" is found in "credits".   *)
(***************************************************************************)
SubStr(needle, word) == needle = word \/ (needle = "credit" /\ word = "credits")
Contains(msg, needle) == \E w \in msg : SubStr(needle, w)

Messages ==
    { {}, {"symbol"}, {"minute"}, {"day"}, {"minute", "day"},
      {"credits", "minute", "limit"}, {"credits", "day", "limit"},
      {"credit"}, {"quota"}, {"limit"} }
ErrorCodes == {RateLimitCode, 400}

\* one entry of a "values" list: a timestamp and the figures at it
Bar(t, v) == [datetime |-> t, value |-> v]
\* the "values" lists a block may carry: empty, two bars out of order, two
\* bars at one timestamp
Blocks == { <<>>, <<Bar(2, 1), Bar(1, 1)>>, <<Bar(1, 1), Bar(1, 2)>> }
\* the entry of one symbol in a symbol-keyed mapping: absent (or null), an
\* error object without "values", or a block
Absent == [present |-> FALSE, has_values |-> FALSE, values |-> <<>>]
ErrEntry == [present |-> TRUE, has_values |-> FALSE, values |-> <<>>]
Block(vals) == [present |-> TRUE, has_values |-> TRUE, values |-> vals]
Entries == {Absent, ErrEntry} \cup {Block(b) : b \in Blocks}

NoBlocks == [s \in {} |-> Absent]
\* an HTTP response: whether its body decodes as JSON, whether its status is
\* an HTTP error, and the decoded value
Response(json, httperr, status, code, msg, hasv, vals, blocks) ==
    [json |-> json, http_error |-> httperr, status |-> status, code |-> code,
     message |-> msg, has_values |-> hasv, values |-> vals, blocks |-> blocks]
ErrPayload(code, msg) == Response("dict", FALSE, "error", code, msg, FALSE, <<>>, NoBlocks)
FlatPayload(vals) == Response("dict", FALSE, "ok", 0, {}, TRUE, vals, NoBlocks)
MapPayload(f) == Response("dict", FALSE, "ok", 0, {}, FALSE, <<>>, f)
ListPayload == Response("list", FALSE, "ok", 0, {}, FALSE, <<>>, NoBlocks)
NonJson(httperr) == Response("none", httperr, "ok", 0, {}, FALSE, <<>>, NoBlocks)
\* requests.get raised (no connection, timeout): there is no response
NoResponse == Response("no_response", FALSE, "none", 0, {}, FALSE, <<>>, NoBlocks)
\* data = {} of the except branch
EmptyDict == Response("dict", FALSE, "none", 0, {}, FALSE, <<>>, NoBlocks)
NoData == Response("unset", FALSE, "none", 0, {}, FALSE, <<>>, NoBlocks)

ErrorPayloads == {ErrPayload(c, m) : c \in ErrorCodes, m \in Messages}
CommonResponses ==
    ErrorPayloads \cup {ListPayload, NonJson(TRUE), NonJson(FALSE), NoResponse}
TsResponses(batch) ==
    CommonResponses \cup {FlatPayload(b) : b \in Blocks}
        \cup {MapPayload(f) : f \in [Range(batch) -> Entries]}

(***************************************************************************)
(* _is_credit_exhausted and the classification of td_get.                  *)
(***************************************************************************)
IsDict(data) == data.json = "dict"
IsError(data) == IsDict(data) /\ data.status = "error"

\* the same test without the word "quota"
_is_credit_exhausted_no_quota(payload) ==
    IF ~IsDict(payload) THEN FALSE
    ELSE IF payload.status # "error" THEN FALSE
    ELSE \/ Contains(payload.message, "credit")
         \/ Contains(payload.message, "credits")
         \/ Contains(payload.message, "limit")
_is_credit_exhausted(payload) ==
    IF ~IsDict(payload) THEN FALSE
    ELSE IF payload.status # "error" THEN FALSE
    ELSE \/ Contains(payload.message, "credit")
         \/ Contains(payload.message, "credits")
         \/ Contains(payload.message, "quota")
         \/ Contains(payload.message, "limit")

\* the call of r.raise_for_status() left out
raise_for_status_skipped(r) == FALSE
\* r.raise_for_status() raises: the response has an HTTP error status
raise_for_status(r) == r.http_error
Is429(data) == IsError(data) /\ data.code = RateLimitCode
\* the minute-level wait without its floor
MinuteWaitNoFloor(attempt) == backoff_base * (attempt + 1)
MinuteWaitS(attempt) == Max(MinuteWait, backoff_base * (attempt + 1))
\* the same wait before every retry
GenericWaitFlat(attempt) == backoff_base
GenericWaitS(attempt) == backoff_base * (attempt + 1)

\* what one pass of the loop body of td_get does with the response r of
\* attempt number `attempt`: [act, data, wait, err]
\*   act = "retry"  : time.sleep(wait); continue
\*   act = "return" : return data (after time.sleep(post) when post > 0)
\*   act = "raise"  : an exception leaves td_get
TdOutcome(act, data, wait, post, err) ==
    [act |-> act, data |-> data, wait |-> wait, post |-> post, err |-> err]
TdClassify(r, attempt, sleep) ==
    IF r.json = "no_response"
    THEN TdOutcome("raise", NoData, 0, 0, "connection_error")
    ELSE IF r.json = "none" /\ raise_for_status(r)
    THEN TdOutcome("raise", NoData, 0, 0, "http_error")
    ELSE LET data == IF r.json = "none" THEN EmptyDict ELSE r IN
         IF Is429(data)
         THEN IF Contains(data.message, "minute")
              THEN TdOutcome("retry", data, MinuteWaitS(attempt), 0, "")
              ELSE IF stop_on_daily_limit /\ Contains(data.message, "day")
              THEN TdOutcome("return", data, 0, 0, "")
              ELSE TdOutcome("retry", data, GenericWaitS(attempt), 0, "")
         ELSE IF _is_credit_exhausted(data)
         THEN TdOutcome("raise", data, 0, 0, "credits_exhausted")
         ELSE TdOutcome("return", data, 0, sleep, "")

(***************************************************************************)
(* Panels (pandas DataFrames).  A panel has the key columns datetime and   *)
(* symbol and the value columns `cols`; a row carries one value per value  *)
(* column.  An optional frame is None or a panel.                          *)
(***************************************************************************)
\* NaN of a value column
Null == 0
Row(t, s, vals) == [datetime |-> t, symbol |-> s, vals |-> vals]
Frame(cols, rows) == [is_none |-> FALSE, cols |-> cols, rows |-> rows]
NoneFrame == [is_none |-> TRUE, cols |-> <<>>, rows |-> <<>>]
\* pd.DataFrame()
EmptyFrame == Frame(<<>>, <<>>)
\* the test of emptiness always failing
IsEmptyNever(df) == FALSE
\* df.empty
IsEmpty(df) == df.rows = <<>>

RECURSIVE Flatten(_)
Flatten(seqs) == IF seqs = <<>> THEN <<>> ELSE Head(seqs) \o Flatten(Tail(seqs))

\* sort_values(keys): a stable sort of the rows by the listed key columns
KeyLeq(a, b, by) ==
    IF by = "datetime_symbol"
    THEN \/ a.datetime < b.datetime
         \/ a.datetime = b.datetime /\ SymRank(a.symbol) <= SymRank(b.symbol)
    ELSE \/ SymRank(a.symbol) < SymRank(b.symbol)
         \/ a.symbol = b.symbol /\ a.datetime <= b.datetime
RECURSIVE InsertRow(_, _, _)
InsertRow(r, sorted, by) ==
    IF sorted = <<>> THEN <<r>>
    ELSE IF KeyLeq(Head(sorted), r, by)
         THEN <<Head(sorted)>> \o InsertRow(r, Tail(sorted), by)
         ELSE <<r>> \o sorted
RECURSIVE SortRows(_, _)
SortRows(rows, by) ==
    IF rows = <<>> THEN <<>>
    ELSE InsertRow(rows[Len(rows)], SortRows(SubSeq(rows, 1, Len(rows) - 1), by), by)
\* the frame left as it is
sort_values_skipped(df, by) == df
\* df.sort_values(by)
sort_values(df, by) == [df EXCEPT !.rows = SortRows(df.rows, by)]

(***************************************************************************)
(* fetch_time_series, from the payload td_get returned.                    *)
(***************************************************************************)
RECURSIVE JoinSymbols(_)
JoinSymbols(symbols) ==
    IF symbols = <<>> THEN ""
    ELSE IF Len(symbols) = 1 THEN symbols[1]
    ELSE symbols[1] \o "," \o JoinSymbols(Tail(symbols))

OhlcvCols == <<"ohlcv">>
\* pd.DataFrame(values), cast_ohlcv, df["symbol"] = sym: the rows of one frame
BlockRows(vals, sym) == [i \in 1..Len(vals) |-> Row(vals[i].datetime, sym, <<vals[i].value>>)]
\* every block dropped as soon as one entry of the mapping lacks "values"
GetBlockAllOrNone(data, sym) ==
    IF sym \in DOMAIN data.blocks /\ \A s \in DOMAIN data.blocks : data.blocks[s].has_values
    THEN data.blocks[sym] ELSE Absent
\* block = data.get(sym)
GetBlock(data, sym) == IF sym \in DOMAIN data.blocks THEN data.blocks[sym] ELSE Absent
\* the frames list: one entry per appended frame, each the rows of that frame
TsFrames(symbols, data) ==
    IF data.has_values
    THEN <<BlockRows(data.values, JoinSymbols(symbols))>>
    ELSE LET kept == SelectSeq(symbols,
                         LAMBDA sym : GetBlock(data, sym).present
                                      /\ GetBlock(data, sym).has_values)
         IN [i \in 1..Len(kept) |-> BlockRows(GetBlock(data, kept[i]).values, kept[i])]

Returned(df) == [raised |-> FALSE, err |-> "", df |-> df]
Raised(err) == [raised |-> TRUE, err |-> err, df |-> NoneFrame]
\* the result of fetch_time_series once td_get has returned `data`
fetch_time_series(symbols, data) ==
    IF IsError(data) THEN Returned(EmptyFrame)
    ELSE IF ~IsDict(data) THEN Raised("unexpected_response")
    ELSE LET frames == TsFrames(symbols, data) IN
         IF frames = <<>> THEN Returned(EmptyFrame)
         ELSE IF Flatten(frames) = <<>>
         \* every frame came from an empty values list: no "datetime" column to sort by
         THEN Raised("key_error")
         ELSE Returned(sort_values(Frame(OhlcvCols, Flatten(frames)), "datetime_symbol"))

(***************************************************************************)
(* fetch_rsi, fetch_macd, fetch_sma, fetch_ema and merge_on_datetime.      *)
(***************************************************************************)
IndicatorOrder == <<"rsi", "macd", "sma", "ema">>
IndicatorCols(ind) ==
    CASE ind = "rsi" -> <<"rsi">>
      [] ind = "macd" -> <<"macd", "macd_signal", "macd_hist">>
      [] ind = "sma" -> <<"sma_20">>
      [] ind = "ema" -> <<"ema_12">>

\* the result of an indicator fetcher once td_get has returned `data`
fetch_indicator(ind, symbol, data) ==
    IF ~(IsDict(data) /\ data.has_values) THEN Returned(NoneFrame)
    ELSE IF data.values = <<>> THEN Raised("key_error")
    ELSE Returned(Frame(IndicatorCols(ind),
             [i \in 1..Len(data.values) |->
                 Row(data.values[i].datetime, symbol,
                     [c \in 1..Len(IndicatorCols(ind)) |-> data.values[i].value])]))

InSeq(x, seq) == \E i \in 1..Len(seq) : seq[i] = x
\* pd.merge(base, extra, on=["datetime", "symbol"], how="left"): a value column
\* present on both sides is kept twice, with the suffixes _x and _y
MergedCols(base, extra) ==
    [i \in 1..Len(base.cols) |->
        IF InSeq(base.cols[i], extra.cols) THEN base.cols[i] \o "_x" ELSE base.cols[i]]
    \o [i \in 1..Len(extra.cols) |->
        IF InSeq(extra.cols[i], base.cols) THEN extra.cols[i] \o "_y" ELSE extra.cols[i]]
Matches(r, extra) ==
    SelectSeq(extra.rows, LAMBDA e : e.datetime = r.datetime /\ e.symbol = r.symbol)
NullVals(extra) == [i \in 1..Len(extra.cols) |-> Null]
\* the rows one base row gives: one per matching row of extra, or one of nulls
LeftJoinRow(r, extra) ==
    LET m == Matches(r, extra) IN
    IF m = <<>> THEN <<Row(r.datetime, r.symbol, r.vals \o NullVals(extra))>>
    ELSE [i \in 1..Len(m) |-> Row(r.datetime, r.symbol, r.vals \o m[i].vals)]
LeftJoinRows(base, extra) ==
    Flatten([i \in 1..Len(base.rows) |-> LeftJoinRow(base.rows[i], extra)])
merge_on_datetime(base_df, extra_df) ==
    IF base_df.is_none \/ extra_df.is_none THEN base_df
    ELSE Frame(MergedCols(base_df, extra_df), LeftJoinRows(base_df, extra_df))

(***************************************************************************)
(* chunked and the output file.                                            *)
(***************************************************************************)
NumChunks(seq, size) == (Len(seq) + size - 1) \div size
\* seq[i:i + size - 1] in place of the slice of the source
chunked_short(seq, size) ==
    [k \in 1..NumChunks(seq, size) |->
        SubSeq(seq, (k - 1) * size + 1, Min(k * size - 1, Len(seq)))]
chunked(seq, size) ==
    [k \in 1..NumChunks(seq, size) |->
        SubSeq(seq, (k - 1) * size + 1, Min(k * size, Len(seq)))]

\* a line of the CSV file
NullRow == Row(0, "", <<>>)
HeaderLine(df) == [kind |-> "header", cols |-> <<"datetime", "symbol">> \o df.cols, row |-> NullRow]
RowLine(r) == [kind |-> "row", cols |-> <<>>, row |-> r]
OldLine == [kind |-> "old", cols |-> <<>>, row |-> NullRow]
RowLines(df) == [i \in 1..Len(df.rows) |-> RowLine(df.rows[i])]
\* to_csv with the default mode "w" whatever mode is asked for
to_csv_overwrite(file, df, mode, header) ==
    (IF header THEN <<HeaderLine(df)>> ELSE <<>>) \o RowLines(df)
\* df.to_csv(path, index=False, mode=mode, header=header)
to_csv(file, df, mode, header) ==
    (IF mode = "w" THEN <<>> ELSE file)
        \o (IF header THEN <<HeaderLine(df)>> ELSE <<>>) \o RowLines(df)

(***************************************************************************)
(* The symbol universe: --symbols_csv (load_symbols_from_csv) or the       *)
(* literal --symbols.  A cell or a piece is its text; the texts explored   *)
(* are two tickers, a ticker with surrounding blanks, a cell of blanks and *)
(* the empty text.                                                         *)
(***************************************************************************)
CellTexts == {"AAA", " AAA ", "BBB", " ", ""}
\* str.strip()
strip(s) ==
    CASE s = " AAA " -> "AAA"
      [] s = " " -> ""
      [] OTHER -> s
\* the float NaN pandas holds for a missing value
NaN == "<NaN>"
\* pd.read_csv(path)[column]: an empty field is read as a missing value
read_csv(column) == [i \in 1..Len(column) |-> IF column[i] = "" THEN NaN ELSE column[i]]
\* .astype(str).tolist(): str(float("nan")) is "nan"
astype_str(values) == [i \in 1..Len(values) |-> IF values[i] = NaN THEN "nan" ELSE values[i]]
\* [s.strip() for s in symbols if s and s.strip()]
StripNonBlank(texts) ==
    LET kept == SelectSeq(texts, LAMBDA s : s # "" /\ strip(s) # "")
    IN [i \in 1..Len(kept) |-> strip(kept[i])]
\* list(dict.fromkeys(symbols)): the first occurrence of every value, in order
RECURSIVE fromkeys(_)
fromkeys(seq) ==
    IF seq = <<>> THEN <<>>
    ELSE LET front == fromkeys(SubSeq(seq, 1, Len(seq) - 1))
             last == seq[Len(seq)]
         IN IF \E i \in 1..Len(front) : front[i] = last THEN front ELSE Append(front, last)

\* --symbols_csv: not given, or a file whose column --symbols_col may be missing
NoCsv == [given |-> FALSE, has_column |-> FALSE, column |-> <<>>]
CsvFile(has_column, column) == [given |-> TRUE, has_column |-> has_column, column |-> column]
\* load_symbols_from_csv on a file that has the column
load_symbols_from_csv(csv) == fromkeys(StripNonBlank(astype_str(read_csv(csv.column))))
\* main, line 355: the pieces of args.symbols.split(",")
split_symbols(pieces) == StripNonBlank(pieces)

(***************************************************************************)
(* The state of a run.                                                     *)
(***************************************************************************)
VARIABLES
    cfg,            \* the API key and the arguments of the run
    symbols,        \* main: symbols, the universe of the run
    env_stop_file,  \* TD_STOP_FILE is set in the process environment
    stop_exists,    \* the stop file exists on disk
    pc,             \* where main is
    bi,             \* index of the batch the loop of main is at
    panels,         \* main: panels, the accumulated batch panels
    panel,          \* main: panel, the base panel being enriched
    wrote_header,   \* main: wrote_header
    out_file,       \* the lines of the file at args.out_panel
    si,             \* index of the symbol the indicator loop is at
    ii,             \* index of the requested indicator the loop is at
    td,             \* the running call of td_get
    exit,           \* how the process ended
    n_writes,       \* history: to_csv calls so far
    day_hit,        \* history: a day-scoped rate limit was returned by td_get
    batch_log,      \* history: the panel each fetched batch returned
    ind_log,        \* history: the series each indicator fetch returned
    ts_log,         \* history: the symbols of each time-series call made
    sp              \* the run of build_universe_sp500.py: fetch_sp500_symbols

vars == <<cfg, symbols, env_stop_file, stop_exists, pc, bi, panels, panel, wrote_header,
          out_file, si, ii, td, exit, n_writes, day_hit, batch_log, ind_log,
          ts_log, sp>>

Seqs(S, n) == UNION {[1..k -> S] : k \in 0..n}
\* the --symbols arguments of up to MaxSymbols tickers, a ticker given twice
\* included, up to the renaming of the tickers
Universes == {u \in Seqs(Tickers, MaxSymbols) : u # <<>> => u[1] = "AAA"}
BatchSizes == {1, 2}
IndicatorSets == { {}, {"rsi"} }
\* the runs explored: every universe with a retry budget of one retry
Configs ==
    [api_key : BOOLEAN, symbols : Universes, symbols_csv : {NoCsv},
     batch_size : BatchSizes, indicators : IndicatorSets, stop_file : BOOLEAN,
     max_retries : {1}]
\* the request client explored: one symbol, streaming or with two indicators,
\* and every retry budget up to MaxRetries
ClientConfigs ==
    [api_key : {TRUE}, symbols : {<<"AAA">>}, symbols_csv : {NoCsv},
     batch_size : {1}, indicators : { {}, {"macd", "sma"} }, stop_file : BOOLEAN,
     max_retries : 0..MaxRetries]

\* --symbols default "NVDA", unused when --symbols_csv is given
DefaultSymbols == <<"NVDA">>
\* the arguments the universe is built from: every --symbols argument of up to
\* MaxCells pieces, and every CSV file whose column has up to MaxCells cells
\* (in a file with other columns, so that an empty cell is not a blank line)
\* or lacks the column
ArgConfigs ==
    [api_key : {TRUE}, symbols : Seqs(CellTexts, MaxCells), symbols_csv : {NoCsv},
     batch_size : BatchSizes, indicators : { {} }, stop_file : {FALSE},
     max_retries : {1}]
    \cup
    [api_key : {TRUE}, symbols : {DefaultSymbols},
     symbols_csv : {CsvFile(TRUE, c) : c \in Seqs(CellTexts, MaxCells)}
                       \cup {CsvFile(FALSE, <<>>)},
     batch_size : BatchSizes, indicators : { {} }, stop_file : {FALSE},
     max_retries : {1}]
\* the batch loop explored: streaming runs over every --symbols argument of up
\* to MaxCells tickers, without a stop file
BatchConfigs ==
    [api_key : {TRUE},
     symbols : {u \in Seqs(Tickers, MaxCells) : u # <<>> => u[1] = "AAA"},
     symbols_csv : {NoCsv}, batch_size : BatchSizes, indicators : { {} },
     stop_file : {FALSE}, max_retries : {0}]
\* twelvedata.py at rest
IdleConfigs ==
    [api_key : {FALSE}, symbols : {DefaultSymbols}, symbols_csv : {NoCsv},
     batch_size : {1}, indicators : { {} }, stop_file : {FALSE}, max_retries : {1}]

(***************************************************************************)
(* build_universe_sp500.py: fetch_sp500_symbols.  The Symbol column of the *)
(* table is a list of cells, each a text or the missing value pd.read_html *)
(* gives for an empty cell.                                                *)
(***************************************************************************)
Sp500Cells == CellTexts \cup {"BRK.B", "BRK-B", NaN}
NormalizeModes == {"none", "yahoo"}
\* s.replace(".", "-")
replace_dot(s) == IF s = "BRK.B" THEN "BRK-B" ELSE s
normalize_symbols(syms, mode) ==
    IF mode = "none" THEN syms
    ELSE [i \in 1..Len(syms) |-> replace_dot(syms[i])]
fetch_sp500_symbols(column, normalize) ==
    normalize_symbols(fromkeys(StripNonBlank(astype_str(column))), normalize)

NoSp500Run == [pc |-> "none", column |-> <<>>, normalize |-> "none", symbols |-> <<>>]
Sp500Runs ==
    [pc : {"start"}, column : Seqs(Sp500Cells, MaxCells), normalize : NormalizeModes,
     symbols : {<<>>}]

batches == chunked(symbols, cfg.batch_size)
\* the flag left False whatever was requested
needs_indicators_never == FALSE
\* needs_indicators = any([args.rsi, args.macd, args.sma > 0, args.ema > 0])
needs_indicators == cfg.indicators # {}
requested == SelectSeq(IndicatorOrder, LAMBDA ind : ind \in cfg.indicators)

Idle ==
    [pc |-> "idle", attempt |-> 0, data |-> NoData, sleep |-> 0, requests |-> 0,
     sleeps |-> <<>>, post_sleep |-> 0, seen |-> <<>>, last_resp |-> NoData]
NewCall(sleep) == [Idle EXCEPT !.pc = "poll", !.sleep = sleep]
Running == [status |-> "running", err |-> ""]
ExitOk == [status |-> "ok", err |-> ""]
ExitError(err) == [status |-> "error", err |-> err]

\* what a response is as the provider meant it, read off the payload alone
Scope(r) ==
    IF r.json = "no_response" THEN "no_response"
    ELSE IF r.json = "none" THEN "non_json"
    ELSE IF r.json = "list" THEN "success"
    ELSE IF r.status # "error" THEN "success"
    ELSE IF r.code # RateLimitCode THEN "error"
    ELSE IF "minute" \in r.message THEN "minute"
    ELSE IF "day" \in r.message THEN "day"
    ELSE "other_429"

\* the state before main runs, for the configurations of C
InitOf(C) ==
    /\ cfg \in C
    /\ symbols = <<>>
    /\ env_stop_file = FALSE
    /\ stop_exists \in (IF cfg.stop_file THEN BOOLEAN ELSE {FALSE})
    /\ pc = "start"
    /\ bi = 1
    /\ panels = <<>>
    /\ panel = NoneFrame
    /\ wrote_header = FALSE
    /\ out_file = <<OldLine>>
    /\ si = 1
    /\ ii = 1
    /\ td = Idle
    /\ exit = Running
    /\ n_writes = 0
    /\ day_hit = FALSE
    /\ batch_log = <<>>
    /\ ind_log = <<>>
    /\ ts_log = <<>>

Init == InitOf(Configs) /\ sp = NoSp500Run
InitClient == InitOf(ClientConfigs) /\ sp = NoSp500Run
InitArgs == InitOf(ArgConfigs) /\ sp = NoSp500Run
InitBatches == InitOf(BatchConfigs) /\ sp = NoSp500Run
\* build_universe_sp500.py alone: a table and a mode, twelvedata.py not run
InitSp500 == InitOf(IdleConfigs) /\ sp \in Sp500Runs

\* an uncaught exception ends the process
Raise(err) ==
    /\ pc' = "exit"
    /\ exit' = ExitError(err)

\* the test of the key left out
check_key_skipped(api_key) == FALSE
\* check_key() raises: `not API_KEY`
check_key(api_key) == ~api_key

\* main, lines 328-360: check_key, the arguments, the universe, the loop variables
Start ==
    /\ pc = "start"
    /\ IF check_key(cfg.api_key)
       THEN /\ Raise("no_api_key")
            /\ UNCHANGED <<env_stop_file, symbols>>
       ELSE /\ env_stop_file' = (env_stop_file \/ cfg.stop_file)
            /\ IF cfg.symbols_csv.given /\ ~cfg.symbols_csv.has_column
               THEN /\ Raise("column_not_found")
                    /\ UNCHANGED symbols
               ELSE /\ symbols' = IF cfg.symbols_csv.given
                                  THEN load_symbols_from_csv(cfg.symbols_csv)
                                  ELSE split_symbols(cfg.symbols)
                    /\ pc' = "batch"
                    /\ UNCHANGED exit
    /\ UNCHANGED <<sp, cfg, stop_exists, bi, panels, panel, wrote_header, out_file,
                   si, ii, td, n_writes, day_hit, batch_log, ind_log,
                   ts_log>>

\* main, line 362: args.stop_file and os.path.exists(args.stop_file)
BatchStopRequested == cfg.stop_file /\ stop_exists

\* main, lines 361-364: the head of the batch loop, up to the call of td_get
BatchStart ==
    /\ pc = "batch"
    /\ bi <= Len(batches)
    /\ IF BatchStopRequested
       THEN /\ Raise("stop_file_batch")
            /\ UNCHANGED <<td, ts_log>>
       ELSE /\ pc' = "ts_call"
            /\ td' = NewCall(ArgsSleep)
            /\ ts_log' = Append(ts_log, batches[bi])
            /\ UNCHANGED exit
    /\ UNCHANGED <<sp, cfg, symbols, env_stop_file, stop_exists, bi, panels, panel, wrote_header,
                   out_file, si, ii, n_writes, day_hit, batch_log, ind_log>>

\* the same check made before the loop only
RequestStopRequestedOnce == env_stop_file /\ stop_exists /\ td.attempt = 0
\* td_get, line 48: os.getenv("TD_STOP_FILE") and os.path.exists(...)
RequestStopRequested == env_stop_file /\ stop_exists

\* td_get, lines 47-50: the stop-file check of an attempt, then the request
TdPoll ==
    /\ pc \in {"ts_call", "ind_call"}
    /\ td.pc = "poll"
    /\ IF RequestStopRequested
       THEN /\ Raise("stop_file_request")
            /\ UNCHANGED td
       ELSE /\ td' = [td EXCEPT !.pc = "inflight", !.requests = @ + 1]
            /\ UNCHANGED <<pc, exit>>
    /\ UNCHANGED <<sp, cfg, symbols, env_stop_file, stop_exists, bi, panels, panel, wrote_header,
                   out_file, si, ii, n_writes, day_hit, batch_log, ind_log,
                   ts_log>>

\* range(max_retries) and range(max_retries + 2) in place of the loop's range
LastAttemptShort(attempt) == attempt + 1 >= cfg.max_retries
LastAttemptLong(attempt) == attempt >= cfg.max_retries + 1
\* for attempt in range(max_retries + 1): `attempt` is the last one
LastAttempt(attempt) == attempt >= cfg.max_retries

Responses ==
    IF pc = "ts_call" THEN TsResponses(batches[bi])
    ELSE CommonResponses \cup {FlatPayload(b) : b \in Blocks}

\* td_get, lines 50-77: the response of the request in flight arrives
TdRespond ==
    /\ pc \in {"ts_call", "ind_call"}
    /\ td.pc = "inflight"
    /\ \E r \in Responses :
         /\ LET o == TdClassify(r, td.attempt, td.sleep)
                seen == Append(td.seen, Scope(r))
            IN CASE o.act = "raise" ->
                   /\ Raise(o.err)
                   /\ td' = [td EXCEPT !.data = o.data, !.seen = seen, !.last_resp = r]
              [] o.act = "return" ->
                   /\ td' = [td EXCEPT !.pc = "returned", !.data = o.data,
                                       !.post_sleep = o.post, !.seen = seen,
                                       !.last_resp = r]
                   /\ UNCHANGED <<pc, exit>>
              [] o.act = "retry" ->
                   /\ td' = [td EXCEPT !.pc = IF LastAttempt(td.attempt)
                                               THEN "returned" ELSE "poll",
                                       !.attempt = IF LastAttempt(td.attempt)
                                                   THEN @ ELSE @ + 1,
                                       !.data = o.data,
                                       !.sleeps = Append(@, o.wait),
                                       !.seen = seen,
                                       !.last_resp = r]
                   /\ UNCHANGED <<pc, exit>>
         /\ day_hit' = (day_hit \/ Scope(r) = "day")
    /\ UNCHANGED <<sp, cfg, symbols, env_stop_file, stop_exists, bi, panels, panel, wrote_header,
                   out_file, si, ii, n_writes, batch_log, ind_log,
                   ts_log>>

\* fetch_time_series, lines 123-159, and the body of the batch loop of main,
\* lines 365-378, once td_get has returned
TsReturn ==
    /\ pc = "ts_call"
    /\ td.pc = "returned"
    /\ LET res == fetch_time_series(batches[bi], td.data)
           batch_panel == res.df
       IN IF res.raised
          THEN /\ Raise(res.err)
               /\ UNCHANGED <<bi, panels, wrote_header, out_file, n_writes, batch_log>>
          ELSE /\ pc' = "batch"
               /\ bi' = bi + 1
               /\ batch_log' = Append(batch_log, batch_panel)
               /\ UNCHANGED exit
               /\ IF IsEmpty(batch_panel)
                  THEN UNCHANGED <<panels, wrote_header, out_file, n_writes>>
                  ELSE IF needs_indicators
                  THEN /\ panels' = Append(panels, batch_panel)
                       /\ UNCHANGED <<wrote_header, out_file, n_writes>>
                  ELSE /\ out_file' = to_csv(out_file, batch_panel,
                                             IF ~wrote_header THEN "w" ELSE "a",
                                             ~wrote_header)
                       /\ wrote_header' = TRUE
                       /\ n_writes' = n_writes + 1
                       /\ UNCHANGED panels
    /\ td' = Idle
    /\ UNCHANGED <<sp, cfg, symbols, env_stop_file, stop_exists, panel, si, ii, day_hit,
                   ind_log,
                   ts_log>>

\* pd.concat(panels, ignore_index=True)
concat(frames) == Frame(OhlcvCols, Flatten([i \in 1..Len(frames) |-> frames[i].rows]))

\* the check dropped, as it was in fetch_time_series (line 153)
NothingFetchedUnchecked == FALSE
\* main, lines 380 and 384: `not panels`, `not wrote_header`
NothingFetched == IF needs_indicators THEN panels = <<>> ELSE ~wrote_header

\* main, lines 379-388: after the batch loop
LoopEnd ==
    /\ pc = "batch"
    /\ bi > Len(batches)
    /\ IF NothingFetched
       THEN /\ Raise("no_time_series")
            /\ UNCHANGED panel
       ELSE IF needs_indicators
       THEN /\ panel' = concat(panels)
            /\ pc' = "indicators"
            /\ UNCHANGED exit
       ELSE /\ UNCHANGED panel
            /\ pc' = "exit"
            /\ exit' = ExitOk
    /\ UNCHANGED <<sp, cfg, symbols, env_stop_file, stop_exists, bi, panels, wrote_header, out_file,
                   si, ii, td, n_writes, day_hit, batch_log, ind_log,
                   ts_log>>

\* main, lines 391-405: the next indicator fetch of the loop, up to td_get
IndStart ==
    /\ pc = "indicators"
    /\ si <= Len(symbols)
    /\ pc' = "ind_call"
    /\ td' = NewCall(DefaultSleep)
    /\ UNCHANGED <<sp, cfg, symbols, env_stop_file, stop_exists, bi, panels, panel, wrote_header,
                   out_file, si, ii, exit, n_writes, day_hit, batch_log, ind_log,
                   ts_log>>

\* fetch_rsi .. fetch_ema after td_get, and the merge of main, lines 393-406
IndReturn ==
    /\ pc = "ind_call"
    /\ td.pc = "returned"
    /\ LET res == fetch_indicator(requested[ii], symbols[si], td.data)
       IN IF res.raised
          THEN /\ Raise(res.err)
               /\ UNCHANGED <<panel, si, ii, ind_log>>
          ELSE /\ panel' = merge_on_datetime(panel, res.df)
               /\ ind_log' = Append(ind_log, res.df)
               /\ pc' = "indicators"
               /\ IF ii < Len(requested)
                  THEN /\ ii' = ii + 1
                       /\ UNCHANGED si
                  ELSE /\ ii' = 1
                       /\ si' = si + 1
               /\ UNCHANGED exit
    /\ td' = Idle
    /\ UNCHANGED <<sp, cfg, symbols, env_stop_file, stop_exists, bi, panels, wrote_header, out_file,
                   n_writes, day_hit, batch_log,
                   ts_log>>

\* main, lines 408-416: sort and save the enriched panel
Save ==
    /\ pc = "indicators"
    /\ si > Len(symbols)
    /\ LET sorted == sort_values(panel, "symbol_datetime")
       IN /\ panel' = sorted
          /\ out_file' = to_csv(out_file, sorted, "w", TRUE)
    /\ n_writes' = n_writes + 1
    /\ pc' = "exit"
    /\ exit' = ExitOk
    /\ UNCHANGED <<sp, cfg, symbols, env_stop_file, stop_exists, bi, panels, wrote_header,
                   si, ii, td, day_hit, batch_log, ind_log,
                   ts_log>>

\* the environment creates or removes the stop file
ToggleStop ==
    /\ pc # "exit"
    /\ cfg.stop_file
    /\ stop_exists' = ~stop_exists
    /\ UNCHANGED <<sp, cfg, symbols, env_stop_file, pc, bi, panels, panel, wrote_header, out_file,
                   si, ii, td, exit, n_writes, day_hit, batch_log, ind_log,
                   ts_log>>

\* build_universe_sp500.py, main, line 152: symbols = fetch_sp500_symbols(...)
FetchSp500Symbols ==
    /\ sp.pc = "start"
    /\ sp' = [sp EXCEPT !.pc = "done",
                        !.symbols = fetch_sp500_symbols(sp.column, sp.normalize)]
    /\ UNCHANGED <<cfg, symbols, env_stop_file, stop_exists, pc, bi, panels, panel,
                   wrote_header, out_file, si, ii, td, exit, n_writes, day_hit,
                   batch_log, ind_log, ts_log>>

Next ==
    \/ Start
    \/ BatchStart
    \/ TdPoll
    \/ TdRespond
    \/ TsReturn
    \/ LoopEnd
    \/ IndStart
    \/ IndReturn
    \/ Save
    \/ ToggleStop

Spec == Init /\ [][Next]_vars
SpecClient == InitClient /\ [][Next]_vars
\* the universe main builds from its arguments: the runs up to the batch loop
NextArgs == Start
SpecArgs == InitArgs /\ [][NextArgs]_vars
\* streaming runs: the steps of main a run without indicators and without a
\* stop file can take
NextBatches ==
    \/ Start
    \/ BatchStart
    \/ TdPoll
    \/ TdRespond
    \/ TsReturn
    \/ LoopEnd
SpecBatches == InitBatches /\ [][NextBatches]_vars
\* the symbols fetch_sp500_symbols returns for a table and a mode
NextSp500 == FetchSp500Symbols
SpecSp500 == InitSp500 /\ [][NextSp500]_vars

(***************************************************************************)
(* Vocabulary of the properties.                                           *)
(***************************************************************************)
InCall == pc \in {"ts_call", "ind_call"}
\* this step sends an HTTP request
IssuesRequest == td.pc = "poll" /\ td'.pc = "inflight"
StopErrors == {"stop_file_batch", "stop_file_request"}
CreditWords == {"credit", "credits", "quota", "limit"}
HasCreditWord(msg) == msg \cap CreditWords # {}
NoDuplicates(seq) == \A i, j \in 1..Len(seq) : seq[i] = seq[j] => i = j
AllIn(seq, S) == \A i \in 1..Len(seq) : seq[i] \in S
Front(seq) == SubSeq(seq, 1, Len(seq) - 1)
Last(seq) == seq[Len(seq)]
\* the call of td_get has received at least one response, the last being td.last_resp
Answered == td.seen # <<>>
\* the last response made td_get neither sleep before a retry nor sleep after success
NoSleepForLast ==
    /\ Len(td.sleeps) = Len(td.seen) - 1
    /\ td.post_sleep = 0
    /\ td.requests = Len(td.seen)

\* C1: once a call of a run has received a day-scoped rate-limit response
\* (code 429, message mentioning the day), no further API request is issued:
\* no request is ever in flight afterwards.
C1_DayLimitIsTerminal == day_hit => td.pc # "inflight"

\* C2 as stated: every error payload whose message holds one of the words
\* credit, credits, quota, limit makes td_get fail fatally on that response,
\* without retry or sleep, and ends the run with an error.
C2_AnyCreditMessageIsFatal ==
    (Answered /\ IsError(td.last_resp) /\ HasCreditWord(td.last_resp.message))
        => /\ pc = "exit"
           /\ exit = ExitError("credits_exhausted")
           /\ NoSleepForLast

\* C2 amended: every error payload that is not a 429 rate-limit payload and
\* whose message holds one of the words credit, credits, quota, limit makes
\* td_get fail fatally on that response, without retry or sleep: the run is
\* over with an error exit, so no further request is issued.
C2_NonRateLimitCreditMessageIsFatal ==
    (Answered /\ IsError(td.last_resp) /\ HasCreditWord(td.last_resp.message)
        /\ td.last_resp.code # RateLimitCode)
        => /\ pc = "exit"
           /\ exit = ExitError("credits_exhausted")
           /\ NoSleepForLast
C2_Witness ==
    /\ pc = "exit"
    /\ exit = ExitError("credits_exhausted")
    /\ td.last_resp = ErrPayload(400, {"quota"})
    /\ td.seen = <<"other_429", "error">>

\* C3: a day-scoped rate-limit response (a 429 payload the client reads as
\* day-scoped: it names the day and not the minute) makes td_get return that
\* payload at once: it is the last response of the call, no sleep was made
\* for it and no request follows it in the call.
C3_DayLimitReturnsAtOnce ==
    \A i \in 1..Len(td.seen) :
        td.seen[i] = "day"
            => /\ i = Len(td.seen)
               /\ td.pc = "returned"
               /\ td.data = td.last_resp
               /\ exit = Running
               /\ NoSleepForLast
C3_Witness ==
    /\ td.pc = "returned"
    /\ td.seen = <<"minute", "day">>
    /\ td.last_resp = ErrPayload(RateLimitCode, {"credits", "day", "limit"})

\* C4: after k <= max_retries minute-scoped rate-limit responses td_get has
\* slept k times and is still trying; when a success response follows them it
\* returns exactly that payload, after k + 1 requests and without an error.
C4_MinuteLimitsThenSuccess ==
    LET n == Len(td.seen) IN
    /\ (n >= 1 /\ n <= cfg.max_retries /\ AllIn(td.seen, {"minute"}))
           => /\ td.pc \in {"poll", "inflight"}
              /\ Len(td.sleeps) = n
              /\ AllIn(td.sleeps, {s \in Nat : s >= MinuteWait})
              /\ td.requests \in {n, n + 1}
    /\ (n >= 1 /\ Last(td.seen) = "success" /\ AllIn(Front(td.seen), {"minute"}))
           => /\ td.pc = "returned"
              /\ td.data = td.last_resp
              /\ exit = Running
              /\ td.requests = n
              /\ Len(td.sleeps) = n - 1
C4_Witness ==
    /\ td.pc = "returned"
    /\ cfg.max_retries = 2
    /\ td.seen = <<"minute", "minute", "success">>
    /\ td.requests = 3
    /\ td.data = FlatPayload(<<Bar(2, 1), Bar(1, 1)>>)

\* C5: one call of td_get issues at most max_retries + 1 requests, whatever
\* the responses; when every one of them was rate-limited (and retried) the
\* call returns the last error payload it received.
C5_BoundedAttempts ==
    /\ td.requests <= cfg.max_retries + 1
    /\ Len(td.seen) <= td.requests
    /\ (Len(td.seen) = cfg.max_retries + 1 /\ AllIn(td.seen, {"minute", "other_429"}))
           => /\ td.pc = "returned"
              /\ td.data = td.last_resp
              /\ exit = Running
C5_Witness ==
    /\ td.pc = "returned"
    /\ cfg.max_retries = 2
    /\ td.seen = <<"minute", "other_429", "minute">>
    /\ td.requests = 3

\* C6: the abort signal (the stop file of --stop_file exists) is polled at
\* the start of every batch and before every attempt of td_get: a step taken
\* from such a point with the signal set ends the run with an abort error
\* and sends no request, and every request is sent from such a poll with the
\* signal clear; a request in flight is always answered and handled, the
\* signal taking effect at the next poll only.
AbortSignal == cfg.stop_file /\ stop_exists
AtPoll == (pc = "batch" /\ bi <= Len(batches)) \/ (InCall /\ td.pc = "poll")
ProgramStep == stop_exists' = stop_exists
C6_AbortIsPolled ==
    [][/\ (AtPoll /\ AbortSignal /\ ProgramStep)
           => /\ pc' = "exit"
              /\ exit'.status = "error"
              /\ exit'.err \in StopErrors
              /\ td' = td
       /\ IssuesRequest => (AtPoll /\ ~AbortSignal)
       /\ (td.pc = "inflight" /\ ProgramStep)
           => /\ Len(td'.seen) = Len(td.seen) + 1
              /\ exit'.err \notin StopErrors
       /\ pc = "exit" => pc' = "exit"]_vars
C6_Witness ==
    /\ pc = "exit"
    /\ exit = ExitError("stop_file_request")
    /\ td.attempt = 1
    /\ td.requests = 1

\* the batches fetched so far that returned rows, and what they returned
NonEmptyLog == SelectSeq(batch_log, LAMBDA df : ~IsEmpty(df))
GatheredRows == Flatten([i \in 1..Len(NonEmptyLog) |-> NonEmptyLog[i].rows])
KeyOf(r) == <<r.datetime, r.symbol>>
KeyCount(rows, k) == Cardinality({i \in 1..Len(rows) : KeyOf(rows[i]) = k})
Kinds(file) == [i \in 1..Len(file) |-> file[i].kind]
FileRows == SelectSeq(out_file, LAMBDA line : line.kind = "row")

\* C7: in streaming mode (no indicator requested) the file is, after every
\* step, one header line followed by the rows of every non-empty batch
\* fetched so far, in batch order, written in as many writes as there were
\* non-empty batches; it is untouched while no batch has returned rows.
C7_StreamingFile ==
    ~needs_indicators =>
        /\ n_writes = Len(NonEmptyLog)
        /\ wrote_header = (NonEmptyLog # <<>>)
        /\ out_file = IF NonEmptyLog = <<>> THEN <<OldLine>>
                      ELSE <<HeaderLine(NonEmptyLog[1])>>
                               \o [i \in 1..Len(GatheredRows) |-> RowLine(GatheredRows[i])]
C7_Witness ==
    /\ ~needs_indicators
    /\ Len(batch_log) = 2
    /\ n_writes = 2
    /\ Kinds(out_file) = <<"header", "row", "row", "row", "row">>

\* C8: a run that gathered at least one non-empty batch and was then stopped
\* by the abort signal, or ended after a day-scoped rate limit, has persisted
\* every gathered row and exits cleanly, in streaming and in indicators mode.
C8_PartialRunPersistsAndExitsCleanly ==
    (/\ pc = "exit"
     /\ NonEmptyLog # <<>>
     /\ exit.err \in StopErrors \/ (day_hit /\ exit.err = ""))
        => /\ exit.status = "ok"
           /\ \A i \in 1..Len(GatheredRows) :
                  \E j \in 1..Len(FileRows) : KeyOf(FileRows[j].row) = KeyOf(GatheredRows[i])

\* C9: a run ends successfully only if some batch returned rows; while no
\* batch has returned rows the output file is neither written nor
\* overwritten, and a run whose batches were all fetched and all empty ends
\* with the fatal error "no time series returned for any symbols".
C9_SuccessNeedsData ==
    /\ (pc = "exit" /\ exit.status = "ok") => NonEmptyLog # <<>>
    /\ NonEmptyLog = <<>> => (n_writes = 0 /\ out_file = <<OldLine>>)
    /\ (pc = "exit" /\ cfg.api_key /\ NonEmptyLog = <<>> /\ Len(batch_log) = Len(batches))
           => exit = ExitError("no_time_series")
C9_Witness ==
    /\ pc = "exit"
    /\ exit = ExitError("no_time_series")
    /\ needs_indicators
    /\ Len(batch_log) = 2
    /\ out_file = <<OldLine>>

\* C10: merging indicator series onto the base panel (the concatenation of
\* the batch panels) leaves the row count of the base panel unchanged and
\* gives no (timestamp, symbol) key more rows than it had in the base.
C10_MergeKeepsBaseRows ==
    ~panel.is_none =>
        LET base == concat(panels) IN
        /\ Len(panel.rows) = Len(base.rows)
        /\ \A i \in 1..Len(panel.rows) :
               KeyCount(panel.rows, KeyOf(panel.rows[i]))
                   = KeyCount(base.rows, KeyOf(panel.rows[i]))

(***************************************************************************)
(* The request client on errors that are not classified.                   *)
(***************************************************************************)
\* td_get slept on the last response with the generic backoff and goes on to
\* the next attempt, or returns that response when it was the last attempt
RetriedWithBackoff ==
    LET n == Len(td.seen) IN
    /\ Len(td.sleeps) = n
    /\ Last(td.sleeps) = backoff_base * n
    /\ td.post_sleep = 0
    /\ IF n <= cfg.max_retries
       THEN td.pc \in {"poll", "inflight"} /\ td.attempt = n
       ELSE td.pc = "returned" /\ td.data = td.last_resp /\ exit = Running

\* C13 as stated: every error payload that is neither a minute-scoped nor a
\* day-scoped rate limit nor a credit or quota exhaustion is retried by td_get
\* after a backoff of backoff_base * (attempt + 1) seconds while the retry
\* budget lasts, and is returned as it is when the budget is spent.
C13_AnyOtherErrorIsRetried ==
    (/\ Answered
     /\ IsError(td.last_resp)
     /\ Scope(td.last_resp) \notin {"minute", "day"}
     /\ ~HasCreditWord(td.last_resp.message))
        => RetriedWithBackoff

\* C13 amended: every rate-limit error payload (code 429) that is neither
\* minute-scoped nor day-scoped is retried by td_get after a backoff of
\* backoff_base * (attempt + 1) seconds while the retry budget lasts, and is
\* returned as it is when the budget is spent.
C13_OtherRateLimitIsRetried ==
    (Answered /\ Scope(td.last_resp) = "other_429") => RetriedWithBackoff
C13_Witness ==
    /\ td.pc = "returned"
    /\ cfg.max_retries = 2
    /\ td.seen = <<"other_429", "other_429", "other_429">>
    /\ td.sleeps = <<5, 10, 15>>
    /\ td.data = ErrPayload(RateLimitCode, {"symbol"})

\* td_get made no retry for the last response
NoRetryForLast == Len(td.sleeps) = Len(td.seen) - 1 /\ td.requests = Len(td.seen)

\* C14 as stated: whenever the body of a response cannot be decoded as JSON,
\* td_get raises a transport error on that response, without retry, and the
\* run ends with that error: no payload is returned to the caller.
C14_NonJsonAlwaysRaises ==
    (Answered /\ Scope(td.last_resp) = "non_json")
        => /\ pc = "exit"
           /\ exit = ExitError("http_error")
           /\ td.pc # "returned"
           /\ NoRetryForLast

\* C14 amended: whenever the body of a response cannot be decoded as JSON,
\* td_get makes no retry; it raises the HTTP error on that response when the
\* response has an HTTP error status, and otherwise returns the empty payload
\* {} to its caller after the post-call sleep.
C14_NonJsonRaisesOrReturnsEmpty ==
    (Answered /\ Scope(td.last_resp) = "non_json")
        => /\ NoRetryForLast
           /\ IF td.last_resp.http_error
              THEN /\ pc = "exit"
                   /\ exit = ExitError("http_error")
                   /\ td.pc # "returned"
                   /\ td.post_sleep = 0
              ELSE /\ td.pc = "returned"
                   /\ td.data = EmptyDict
                   /\ td.post_sleep = td.sleep
                   /\ exit = Running
C14_Witness ==
    /\ td.pc = "returned"
    /\ td.seen = <<"minute", "non_json">>
    /\ td.last_resp = NonJson(FALSE)
    /\ td.data = EmptyDict
    /\ td.requests = 2

\* the last response of the call was a transport failure: no response at all,
\* or an HTTP error status with a body that is not JSON
TransportErrors == {"connection_error", "http_error"}
TransportFailed ==
    /\ Answered
    /\ \/ Scope(td.last_resp) = "no_response"
       \/ Scope(td.last_resp) = "non_json" /\ td.last_resp.http_error

\* C21: a network or HTTP failure of one API call does not end the run: once
\* a call has failed so, the run is still going or ends without an error
\* (the batch or symbol of the call was skipped).
C21_TransportFailureIsSkipped ==
    TransportFailed =>
        /\ exit.status # "error"
        /\ exit.err \notin TransportErrors

\* C22: a run without an API key ends with the fatal error of check_key as
\* its first step: it never issues an HTTP request, never starts a call and
\* never creates or modifies the output file.
C22_NoKeyNoRequestNoFile ==
    ~cfg.api_key =>
        /\ pc = "start" \/ (pc = "exit" /\ exit = ExitError("no_api_key"))
        /\ td = Idle
        /\ ts_log = <<>>
        /\ n_writes = 0
        /\ out_file = <<OldLine>>
C22_Witness ==
    /\ ~cfg.api_key
    /\ pc = "exit"
    /\ exit = ExitError("no_api_key")
    /\ cfg.symbols = <<"AAA", "BBB">>

\* C23: in a call of td_get the sleep made for the response of attempt a
\* (the response number a + 1) is max(60, backoff_base * (a + 1)) seconds,
\* hence at least 60, when the response is a minute-scoped rate limit, and
\* backoff_base * (a + 1) seconds when it is a rate limit that is neither
\* minute- nor day-scoped, the latter growing strictly from one attempt to a
\* later one.
C23_SleepDurations ==
    /\ Len(td.sleeps) <= Len(td.seen)
    /\ \A i \in 1..Len(td.sleeps) :
           /\ td.seen[i] \in {"minute", "other_429"}
           /\ td.seen[i] = "minute" =>
                  /\ td.sleeps[i] = Max(60, backoff_base * i)
                  /\ td.sleeps[i] >= 60
           /\ td.seen[i] = "other_429" => td.sleeps[i] = backoff_base * i
    /\ \A i, j \in 1..Len(td.sleeps) :
           (i < j /\ td.seen[i] = "other_429" /\ td.seen[j] = "other_429")
               => td.sleeps[i] < td.sleeps[j]
C23_Witness ==
    /\ cfg.max_retries = 2
    /\ td.seen = <<"minute", "other_429", "other_429">>
    /\ td.sleeps = <<60, 10, 15>>

\* td_get has returned for the batch and fetch_time_series returns, from its
\* payload, a panel without rows
EmptyBatchReturned ==
    /\ pc = "ts_call"
    /\ td.pc = "returned"
    /\ LET res == fetch_time_series(batches[bi], td.data)
       IN ~res.raised /\ res.df.rows = <<>>

\* C24: the step main takes with a batch whose fetch returned no rows is not
\* fatal and has no effect on the results: the output file, wrote_header and
\* panels are unchanged, nothing is written, and main is at the next batch.
C24_EmptyBatchHasNoEffect ==
    [][(EmptyBatchReturned /\ ProgramStep) =>
          /\ out_file' = out_file
          /\ wrote_header' = wrote_header
          /\ panels' = panels
          /\ n_writes' = n_writes
          /\ exit' = Running
          /\ pc' = "batch"
          /\ bi' = bi + 1]_vars
C24_Witness ==
    /\ pc = "batch"
    /\ bi = 3
    /\ needs_indicators
    /\ Len(batch_log) = 2
    /\ batch_log[1].rows # <<>>
    /\ batch_log[2].rows = <<>>
    /\ panels = <<batch_log[1]>>

\* C25: a call of td_get that returns a success payload has slept the
\* inter-request delay of the run (--sleep) after it, for a time-series call
\* and for an indicator call alike; a call that returns a day-scoped rate
\* limit, and a call that ends the run with an error, made no such sleep.
C25_PostCallDelayIsRunDelay ==
    /\ (InCall /\ td.pc = "returned" /\ Scope(td.last_resp) = "success"
            /\ IsDict(td.last_resp))
           => td.post_sleep = ArgsSleep
    /\ (InCall /\ td.pc = "returned" /\ Scope(td.last_resp) = "day")
           => td.post_sleep = 0
    /\ (pc = "exit" /\ exit.status = "error") => td.post_sleep = 0

(***************************************************************************)
(* The enriched panel.                                                     *)
(***************************************************************************)
\* the value columns of a panel enriched with the requested indicators
EnrichedCols ==
    OhlcvCols \o Flatten([k \in 1..Len(requested) |-> IndicatorCols(requested[k])])
\* the run has left the indicator loop and saved the panel
Enriched == pc = "exit" /\ exit = ExitOk /\ needs_indicators
AllSeriesFetched == \A k \in 1..Len(ind_log) : ~ind_log[k].is_none
\* the panel has the value column c exactly once, and the row r of the panel
\* holds at it the non-null value e has at the column number n of its series
HoldsValue(r, c, e, n) ==
    /\ Cardinality({m \in 1..Len(panel.cols) : panel.cols[m] = c}) = 1
    /\ \A m \in 1..Len(panel.cols) :
           panel.cols[m] = c => (r.vals[m] # Null /\ r.vals[m] = e.vals[n])

\* C11: in indicators mode, whatever the size of the universe (no symbol
\* twice), once every indicator series of every symbol has been fetched and
\* merged, the panel has the base columns and exactly one column per
\* requested indicator value (rsi; macd, macd_signal, macd_hist; sma_20;
\* ema_12), and every row whose (timestamp, symbol) occurs in a fetched series
\* holds a non-null value of that series at that key in each of its columns.
C11_OneColumnPerIndicator ==
    (Enriched /\ AllSeriesFetched /\ NoDuplicates(symbols)) =>
        /\ panel.cols = EnrichedCols
        /\ \A k \in 1..Len(ind_log) : \A i \in 1..Len(panel.rows) :
               LET f == ind_log[k]
                   r == panel.rows[i]
                   m == Matches(r, f)
               IN m # <<>> =>
                      \A n \in 1..Len(f.cols) :
                          \E j \in 1..Len(m) : HoldsValue(r, f.cols[n], m[j], n)

(***************************************************************************)
(* The panel of a batch.                                                   *)
(***************************************************************************)
\* a comes no later than b by timestamp first and symbol second
TimeSymbolOrder(a, b) ==
    \/ a.datetime < b.datetime
    \/ a.datetime = b.datetime /\ SymRank(a.symbol) <= SymRank(b.symbol)
SortedByTimeSymbol(rows) ==
    \A i, j \in 1..Len(rows) : i < j => TimeSymbolOrder(rows[i], rows[j])
\* the "values" lists of a payload, each with the symbol it is the list of
ValueLists(batch, data) ==
    IF ~IsDict(data) \/ IsError(data) THEN {}
    ELSE IF data.has_values THEN {<<JoinSymbols(batch), data.values>>}
    ELSE {<<sym, data.blocks[sym].values>> :
             sym \in {x \in DOMAIN data.blocks : data.blocks[x].has_values}}
\* the (timestamp, symbol) pairs present in a payload
PayloadKeys(batch, data) ==
    UNION { {<<vl[2][i].datetime, vl[1]>> : i \in 1..Len(vl[2])} : vl \in ValueLists(batch, data) }
\* this step is fetch_time_series returning the panel of the batch to main
BatchReturns == pc = "ts_call" /\ td.pc = "returned" /\ pc' = "batch"

\* C12: whenever fetch_time_series returns the panel of a batch, the panel is
\* sorted by (timestamp, symbol), every (timestamp, symbol) pair of the raw
\* payload has exactly one row in it, and it has no row of another pair.
C12_OneRowPerPayloadKey ==
    [][BatchReturns =>
          LET df == Last(batch_log')
              keys == PayloadKeys(batches[bi], td.data)
          IN /\ SortedByTimeSymbol(df.rows)
             /\ \A k \in keys : KeyCount(df.rows, k) = 1
             /\ \A i \in 1..Len(df.rows) : KeyOf(df.rows[i]) \in keys]_vars

\* the payload is a symbol-keyed mapping (an object without "values")
IsMapping(data) == IsDict(data) /\ ~IsError(data) /\ ~data.has_values
\* the entry of sym in the mapping is missing, empty or without "values"
BadEntry(data, sym) ==
    \/ sym \notin DOMAIN data.blocks
    \/ ~data.blocks[sym].present
    \/ ~data.blocks[sym].has_values
Occurrences(seq, x) == Cardinality({i \in 1..Len(seq) : seq[i] = x})
RowsOf(df, sym) == SelectSeq(df.rows, LAMBDA r : r.symbol = sym)

\* C19: whenever fetch_time_series returns the panel of a batch answered
\* with a symbol-keyed mapping, the panel has no row of a requested symbol
\* whose entry is missing, empty or without "values", and has every bar of
\* every other requested symbol, once per time the symbol was requested.
C19_MappingWalksRequestedSymbols ==
    [][(BatchReturns /\ IsMapping(td.data)) =>
          LET df == Last(batch_log')
              batch == batches[bi]
          IN \A k \in 1..Len(batch) :
                 LET sym == batch[k] IN
                 IF BadEntry(td.data, sym)
                 THEN RowsOf(df, sym) = <<>>
                 ELSE LET vals == td.data.blocks[sym].values IN
                      /\ Len(RowsOf(df, sym)) = Len(vals) * Occurrences(batch, sym)
                      /\ \A i \in 1..Len(vals) :
                             \E j \in 1..Len(df.rows) :
                                 df.rows[j] = Row(vals[i].datetime, sym, <<vals[i].value>>)]_vars
C19_Witness ==
    /\ ts_log = << <<"AAA", "BBB">> >>
    /\ Len(batch_log) = 1
    /\ batch_log[1].rows = <<Row(1, "BBB", <<1>>), Row(2, "BBB", <<1>>)>>

\* td_get has returned a payload that is not a JSON object to a fetcher
ReturnedNonObject == InCall /\ td.pc = "returned" /\ ~IsDict(td.data)

\* C20: a payload of unexpected shape (a JSON value that is not an object) is
\* fatal for its call only: the step main takes once td_get has returned it
\* skips the batch or the symbol's indicator and the run goes on.
C20_UnexpectedShapeIsSkipped ==
    [][(ReturnedNonObject /\ ProgramStep) =>
          /\ exit' = Running
          /\ pc = "ts_call" => (pc' = "batch" /\ bi' = bi + 1)
          /\ pc = "ind_call" => (pc' = "indicators" /\ panel' = panel)]_vars

\* C27: every row of the panel fetch_time_series returned for a batch carries
\* in its symbol column one symbol of that batch, whatever the shape of the
\* response and the size of the batch (of a universe without a repeated
\* symbol).
C27_SymbolColumnHoldsOneSymbol ==
    NoDuplicates(symbols) =>
        \A k \in 1..Len(batch_log) :
            \A i \in 1..Len(batch_log[k].rows) :
                batch_log[k].rows[i].symbol \in Range(ts_log[k])

(***************************************************************************)
(* The mode of a run.                                                      *)
(***************************************************************************)
\* one of --rsi, --macd, --sma, --ema was asked for
IndicatorsRequested == cfg.indicators # {}

\* C26: the mode of a run is fixed by whether an indicator was requested.
\* Without one, the run never enters the indicator loop, makes no indicator
\* call and keeps no batch in memory.  With one, the file is untouched while
\* batches (and indicators) are fetched, and it is written once, by the step
\* that ends the run well, after the indicator loop has fetched and merged
\* every requested indicator of every symbol of the universe.
C26_ModeIsFixed ==
    /\ ~IndicatorsRequested =>
           /\ pc \notin {"indicators", "ind_call"}
           /\ panels = <<>>
           /\ panel = NoneFrame
           /\ ind_log = <<>>
    /\ IndicatorsRequested =>
           /\ ~wrote_header
           /\ n_writes = IF pc = "exit" /\ exit = ExitOk THEN 1 ELSE 0
           /\ n_writes = 0 => out_file = <<OldLine>>
           /\ n_writes = 1 =>
                  /\ si = Len(symbols) + 1
                  /\ Len(ind_log) = Len(symbols) * Cardinality(cfg.indicators)
                  /\ out_file = <<HeaderLine(panel)>> \o RowLines(panel)
C26_Witness ==
    /\ IndicatorsRequested
    /\ pc = "exit"
    /\ exit = ExitOk
    /\ Len(symbols) = 2
    /\ Len(batch_log) = 2
    /\ Len(ind_log) = 2
    /\ n_writes = 1

(***************************************************************************)
(* The universe and its batches.                                           *)
(***************************************************************************)
\* the index of the first occurrence of x in seq
FirstIndex(seq, x) == CHOOSE i \in 1..Len(seq) : seq[i] = x /\ \A j \in 1..(i - 1) : seq[j] # x
\* the cells of a column that are not blank, trimmed
TrimmedCells(column) ==
    LET kept == SelectSeq(column, LAMBDA s : strip(s) # "")
    IN [i \in 1..Len(kept) |-> strip(kept[i])]

\* C15: the list load_symbols_from_csv returns for a column has no duplicate
\* and no blank entry, holds exactly the symbols of the column (its non-blank
\* cells, trimmed) and holds them in the order of their first occurrence.
C15_LoadedListIsCleanAndOrdered ==
    (pc = "batch" /\ cfg.symbols_csv.given) =>
        LET wanted == TrimmedCells(cfg.symbols_csv.column) IN
        /\ NoDuplicates(symbols)
        /\ \A i \in 1..Len(symbols) : strip(symbols[i]) # ""
        /\ Range(symbols) = Range(wanted)
        /\ \A i, j \in 1..Len(symbols) :
               i < j => FirstIndex(wanted, symbols[i]) < FirstIndex(wanted, symbols[j])

\* the texts the universe is built from, and whether C15 bears on them
UniverseSource == IF cfg.symbols_csv.given THEN cfg.symbols_csv.column ELSE cfg.symbols
NoEmptyCell ==
    cfg.symbols_csv.given =>
        \A i \in 1..Len(cfg.symbols_csv.column) : cfg.symbols_csv.column[i] # ""

\* C16: the universe main partitions into batches is an ordered set of the
\* symbols given (a CSV column without an empty cell, or the pieces of
\* --symbols): it holds every symbol given, none twice, in the order of the
\* first occurrences; hence no symbol occurs twice in the batches requested.
C16_UniverseIsOrderedSet ==
    (pc = "batch" /\ NoEmptyCell) =>
        LET wanted == TrimmedCells(UniverseSource) IN
        /\ NoDuplicates(symbols)
        /\ Range(symbols) = Range(wanted)
        /\ \A i, j \in 1..Len(symbols) :
               i < j => FirstIndex(wanted, symbols[i]) < FirstIndex(wanted, symbols[j])
        /\ NoDuplicates(Flatten(batches))

\* C17: the batches of a run are contiguous slices of the universe in its
\* order: their concatenation is the universe, every batch has at least one
\* and at most batch_size symbols, every batch but the last has batch_size
\* symbols; and the time-series calls made so far are the first batches, in
\* that order, one call per batch, the next one made only when the previous
\* one has returned; a run that ends well has called every batch.
C17_BatchesPartitionUniverse ==
    pc # "start" =>
        /\ Flatten(batches) = symbols
        /\ \A k \in 1..Len(batches) :
               /\ Len(batches[k]) >= 1
               /\ Len(batches[k]) <= cfg.batch_size
               /\ k < Len(batches) => Len(batches[k]) = cfg.batch_size
        /\ Len(ts_log) <= Len(batches)
        /\ ts_log = SubSeq(batches, 1, Len(ts_log))
        /\ pc = "ts_call" => (Len(ts_log) = bi /\ Len(batch_log) = bi - 1)
        /\ pc = "batch" => (Len(ts_log) = bi - 1 /\ Len(batch_log) = bi - 1)
        /\ (pc = "exit" /\ exit = ExitOk) => ts_log = batches
C17_Witness ==
    /\ pc = "exit"
    /\ exit = ExitOk
    /\ cfg.batch_size = 2
    /\ symbols = <<"AAA", "BBB", "AAA">>
    /\ ts_log = << <<"AAA", "BBB">>, <<"AAA">> >>

(***************************************************************************)
(* The order of what is written.                                           *)
(***************************************************************************)
\* a comes no later than b by symbol first and timestamp second
SymbolTimeOrder(a, b) ==
    \/ SymRank(a.symbol) < SymRank(b.symbol)
    \/ a.symbol = b.symbol /\ a.datetime <= b.datetime
SortedBySymbolTime(rows) ==
    \A i, j \in 1..Len(rows) : i < j => SymbolTimeOrder(rows[i], rows[j])
\* the rows the file holds, and the file as the writes of streaming mode made it
WrittenRows == [i \in 1..Len(FileRows) |-> FileRows[i].row]
StreamedBatchesSorted ==
    ~needs_indicators =>
        /\ WrittenRows = GatheredRows
        /\ \A k \in 1..Len(NonEmptyLog) : SortedByTimeSymbol(NonEmptyLog[k].rows)

\* C18 as stated: what the run writes is sorted by (timestamp, symbol) when
\* it is written: every batch written in streaming mode, and the enriched
\* panel written in indicators mode.
C18_WritesSortedByTimeSymbol ==
    /\ StreamedBatchesSorted
    /\ Enriched => (WrittenRows = panel.rows /\ SortedByTimeSymbol(WrittenRows))

\* C18 amended: every batch written in streaming mode is sorted by
\* (timestamp, symbol) when it is written, and the enriched panel written in
\* indicators mode is sorted by (symbol, timestamp).
C18_WritesSorted ==
    /\ StreamedBatchesSorted
    /\ Enriched => (WrittenRows = panel.rows /\ SortedBySymbolTime(WrittenRows))
C18_Witness ==
    /\ Enriched
    /\ Len(WrittenRows) = 4
    /\ WrittenRows[2].symbol = "AAA" /\ WrittenRows[2].datetime = 2
    /\ WrittenRows[3].symbol = "BBB" /\ WrittenRows[3].datetime = 1

(***************************************************************************)
(* The S&P 500 universe.                                                   *)
(***************************************************************************)
NoMissingCell == \A i \in 1..Len(sp.column) : sp.column[i] # NaN
\* the symbols of the table: its non-blank cells, trimmed, as the mode writes them
TableSymbols ==
    LET cells == TrimmedCells(sp.column)
    IN [i \in 1..Len(cells) |->
           IF sp.normalize = "yahoo" THEN replace_dot(cells[i]) ELSE cells[i]]

\* C28: for every Symbol column (without a missing cell) and both modes, the
\* list fetch_sp500_symbols returns has no blank entry and no duplicate, and
\* holds the symbols of the table, as the mode writes them, in the order of
\* their first occurrences.
C28_Sp500ListIsCleanAndOrdered ==
    (sp.pc = "done" /\ NoMissingCell) =>
        /\ \A i \in 1..Len(sp.symbols) : strip(sp.symbols[i]) # ""
        /\ NoDuplicates(sp.symbols)
        /\ Range(sp.symbols) = Range(TableSymbols)
        /\ \A i, j \in 1..Len(sp.symbols) :
               i < j => FirstIndex(TableSymbols, sp.symbols[i])
                            < FirstIndex(TableSymbols, sp.symbols[j])

====
